---------------------------- MODULE Spec2Model ----------------------------
(***************************************************************************)
(* Model of the audio player of app/src/audio_player.c: the producer       *)
(* thread (open, push, close), the SDL audio thread (the pull callback,    *)
(* run by SDL with the device lock held), the sample ring that sits        *)
(* between them and the moving average of the buffering level.             *)
(*                                                                         *)
(* The ring (util/audiobuf) and the average (util/average) are used by     *)
(* audio_player.c but their sources are not part of src/; they are         *)
(* modelled from the specification's sections 3, 4.1 and 4.2.              *)
(***************************************************************************)
EXTENDS Integers, Sequences, FiniteSets, TLC

(***************************************************************************)
(* Bounds of the model.                                                    *)
(***************************************************************************)
\* ctx->sample_rate of the session that is modelled
SampleRate == 100
\* ap->target_buffering_delay, in ticks
TargetBufferingDelay == 100000
\* ctx channel count
NbChannels == 1
\* number of push calls in a behaviour
MaxPushes == 2
\* number of callback invocations in a behaviour
MaxPulls == 2
\* number of open calls in a behaviour
MaxOpens == 1

(***************************************************************************)
(* Program constants.                                                      *)
(***************************************************************************)
SC_AUDIO_OUTPUT_BUFFER_MS == 5
SC_TICK_FREQ == 1000000
OutBytesPerSample == 4
AverageRange == 32
SwrHeadroom == 256
SwrBufInitialSamples == 4096
SwrBufGrowBytes == 4096
MarginMs == 30
MaxBufferedBlocks == 12
MaxInitialBlocks == 2
CompensationSeconds == 4
CompensationRatio == 50

MIN(a, b) == IF a < b THEN a ELSE b
MAX(a, b) == IF a > b THEN a ELSE b
CLAMP(v, lo, hi) == MIN(MAX(v, lo), hi)

(***************************************************************************)
(* Values fixed by open for the whole session.                             *)
(***************************************************************************)
VARIABLES
    sample_rate,           \* ap->sample_rate
    target_buffering       \* ap->target_buffering

session_vars == <<sample_rate, target_buffering>>

\* lines 329-330
open_target_buffering(delay, rate) == (delay * rate) \div SC_TICK_FREQ

sample_size == NbChannels * OutBytesPerSample
audiobuf_samples == target_buffering + sample_rate
TO_BYTES(samples) == samples * sample_size
TO_SAMPLES(bytes) == bytes \div sample_size
margin == (MarginMs * sample_rate) \div 1000
max_buffered_samples ==
    target_buffering
      + (MaxBufferedBlocks * SC_AUDIO_OUTPUT_BUFFER_MS * sample_rate) \div 1000
      + target_buffering \div 10
\* mutant: the cap of the initial buffering is below what the callback waits for
max_initial_below_gate == target_buffering - margin - 1

\* lines 212-213
max_initial_buffering ==
    target_buffering
      + (MaxInitialBlocks * SC_AUDIO_OUTPUT_BUFFER_MS * sample_rate) \div 1000

(***************************************************************************)
(* The sample ring: a producer cursor (head), a consumer cursor (tail) and *)
(* the sample slots.  One slot is never used, so that a full ring and an   *)
(* empty ring differ.  A slot holds the identity of the sample written in  *)
(* it, 0 when nothing was ever written there.                              *)
(***************************************************************************)
Alloc == audiobuf_samples + 1
sc_audiobuf_capacity == Alloc - 1
sc_audiobuf_init ==
    [head |-> 0, tail |-> 0, data |-> [i \in 0..(Alloc - 1) |-> 0]]
sc_audiobuf_can_read(b) == (Alloc + b.head - b.tail) % Alloc
sc_audiobuf_can_write(b) == (Alloc + b.tail - b.head - 1) % Alloc
\* copy samples first..first+n-1 after the producer cursor, cursor unmoved
sc_audiobuf_prepare_write(b, first, n) ==
    [b EXCEPT !.data =
        [i \in 0..(Alloc - 1) |->
            LET k == (Alloc + i - b.head) % Alloc
            IN  IF k < n THEN first + k ELSE b.data[i]]]
sc_audiobuf_commit_write(b, n) == [b EXCEPT !.head = (b.head + n) % Alloc]
sc_audiobuf_write(b, first, n) ==
    sc_audiobuf_commit_write(sc_audiobuf_prepare_write(b, first, n), n)
sc_audiobuf_skip(b, n) == [b EXCEPT !.tail = (b.tail + n) % Alloc]
\* the k-th readable sample, k from 0
sc_audiobuf_peek(b, k) == b.data[(b.tail + k) % Alloc]
\* the n samples a read copies out; the ring after it is the ring skipped
sc_audiobuf_read_samples(b, n) == [k \in 1..n |-> sc_audiobuf_peek(b, k - 1)]
sc_audiobuf_read(b, n) == sc_audiobuf_skip(b, n)

(***************************************************************************)
(* The moving average.  avg is a float in the program; here it is the      *)
(* exact fraction n/d, d > 0, in lowest terms.                             *)
(***************************************************************************)
RECURSIVE Gcd(_, _)
Gcd(a, b) == IF b = 0 THEN a ELSE Gcd(b, a % b)
Abs(x) == IF x < 0 THEN -x ELSE x
Frac(n, d) == LET g == Gcd(Abs(n), d) IN [n |-> n \div g, d |-> d \div g]
sc_average_init == [range |-> AverageRange, count |-> 0, avg |-> Frac(0, 1)]
\* avg->avg += k
avg_add(a, k) == [a EXCEPT !.avg = Frac(a.avg.n + k * a.avg.d, a.avg.d)]
sc_average_push(a, value) ==
    LET c == IF a.count < a.range THEN a.count + 1 ELSE a.count
    IN  [a EXCEPT !.count = c,
                  !.avg = Frac((c - 1) * a.avg.n + value * a.avg.d,
                               c * a.avg.d)]
sc_average_get(a) == a.avg


(***************************************************************************)
(* Inputs.  A push receives a frame of nb_samples samples; the resampler   *)
(* reports a delay and returns ret (negative: failure).  The device asks   *)
(* the callback for len bytes, a whole number of samples.                  *)
(***************************************************************************)
\* <<frame->nb_samples, swr_get_delay(), the value swr_convert returns>>
FrameIn ==
    {<<2, 0, -1>>,
     <<2, 0, 0>>,
     <<2, 0, 3>>,
     <<2, 0, target_buffering - 2>>,
     <<2, 0, sc_audiobuf_capacity - 5>>,
     <<2, 0, 3 * Alloc>>,
     <<SwrBufInitialSamples, 0, 3>>}
CountIn == {1, max_buffered_samples + 1}
LenIn == {TO_BYTES(c) : c \in CountIn}

VARIABLES
    \* struct sc_audio_player
    buf,                   \* ap->buf
    avg_buffering,         \* ap->avg_buffering
    played,                \* ap->played
    received,              \* ap->received
    previous_can_write,    \* ap->previous_can_write
    samples_since_resync,  \* ap->samples_since_resync
    swr_buf_alloc_size,    \* ap->swr_buf_alloc_size
    res,                   \* which of device, swr_ctx, buf, swr_buf are held
    unpaused,              \* the device runs its callback
    \* the device lock and the two threads
    lock,                  \* "none", "producer" or "consumer"
    pc,                    \* where the producer thread is
    l,                     \* the locals of the push in progress
    cb,                    \* "idle", or "run" inside the callback
    cb_len,                \* len of the callback in progress
    stream,                \* the output buffer of the last callback, in bytes
    \* what the environment observes
    swr_comp,              \* the compensations handed to the resampler
    push_ret,              \* what the last push returned
    open_ret,              \* what the last open returned
    \* history of the open session
    produced,              \* number of samples the resampler has output
    out,                   \* the samples sc_audiobuf_read copied out, in order
    dropped,               \* id ranges removed by skip or by truncation
    ring_in,               \* number of samples committed to the ring so far
    ring_out,              \* number of samples read or skipped so far
    push_in,               \* what realloc and swr_convert did in the last push
    npush, npull, nopen

vars == <<sample_rate, target_buffering, buf, avg_buffering, played, received, previous_can_write,
          samples_since_resync, swr_buf_alloc_size, res, unpaused, lock, pc, l,
          cb, cb_len, stream, swr_comp, push_ret, open_ret, produced, out,
          dropped, ring_in, ring_out, push_in, npush, npull, nopen>>

ap_vars == <<buf, avg_buffering, played, received, previous_can_write,
             samples_since_resync, swr_buf_alloc_size>>
hist_vars == <<produced, out, dropped, ring_in, ring_out>>
cb_vars == <<cb, cb_len, stream, npull>>

NoLocals == [nb_samples |-> 0, samples_written |-> 0, lockless_write |-> FALSE,
             first |-> 0, buffered_samples |-> 0, played |-> FALSE,
             skip_samples |-> 0, asserts |-> TRUE]
NoPushIn == [realloc_ok |-> TRUE, ret |-> 0]
NoRes == [device |-> FALSE, swr_ctx |-> FALSE, audiobuf |-> FALSE,
          swr_buf |-> FALSE]
AllRes == [device |-> TRUE, swr_ctx |-> TRUE, audiobuf |-> TRUE,
           swr_buf |-> TRUE]

(***************************************************************************)
(* sc_audio_player_init: nothing is acquired before open.                  *)
(***************************************************************************)
Init ==
    /\ sample_rate = 0
    /\ target_buffering = 0
    /\ buf = sc_audiobuf_init
    /\ avg_buffering = sc_average_init
    /\ played = FALSE
    /\ received = FALSE
    /\ previous_can_write = 0
    /\ samples_since_resync = 0
    /\ swr_buf_alloc_size = 0
    /\ res = NoRes
    /\ unpaused = FALSE
    /\ lock = "none"
    /\ pc = "closed"
    /\ l = NoLocals
    /\ cb = "idle"
    /\ cb_len = 0
    /\ stream = << >>
    /\ swr_comp = << >>
    /\ push_ret = TRUE
    /\ open_ret = FALSE
    /\ produced = 0
    /\ out = << >>
    /\ dropped = {}
    /\ ring_in = 0
    /\ ring_out = 0
    /\ push_in = NoPushIn
    /\ npush = 0
    /\ npull = 0
    /\ nopen = 0

(***************************************************************************)
(* sc_audio_player_frame_sink_open.  The device is opened paused: lines    *)
(* 285-368 acquire and initialise everything, line 370 lets the device     *)
(* run, line 372 returns.                                                  *)
(***************************************************************************)
OpenFailPoints == {"device", "swr_alloc", "swr_init", "audiobuf", "swr_buf"}

\* what is held when open fails at a point, before the unwinding
OpenAcquired(point) ==
    [device   |-> point # "device",
     swr_ctx  |-> point \in {"swr_init", "audiobuf", "swr_buf"},
     audiobuf |-> point = "swr_buf",
     swr_buf  |-> FALSE]

\* mutant: a failure to allocate the ring only closes the device
OpenLabel_ring_skips_swr_free(point) ==
    CASE point = "device" -> "return"
      [] point = "swr_alloc" -> "error_close_audio_device"
      [] point = "swr_init" -> "error_free_swr_ctx"
      [] point = "audiobuf" -> "error_close_audio_device"
      [] point = "swr_buf" -> "error_destroy_audiobuf"

\* the label each failure jumps to
OpenLabel(point) ==
    CASE point = "device" -> "return"
      [] point = "swr_alloc" -> "error_close_audio_device"
      [] point = "swr_init" -> "error_free_swr_ctx"
      [] point = "audiobuf" -> "error_free_swr_ctx"
      [] point = "swr_buf" -> "error_destroy_audiobuf"

\* the unwinding from a label, falling through to the end
OpenUnwind(held, label) ==
    [device   |-> held.device /\ label = "return",
     swr_ctx  |-> held.swr_ctx
                    /\ label \in {"return", "error_close_audio_device"},
     audiobuf |-> held.audiobuf /\ label # "error_destroy_audiobuf",
     swr_buf  |-> held.swr_buf]

OpenFail(point) ==
    /\ pc = "closed"
    /\ nopen < MaxOpens
    /\ nopen' = nopen + 1
    /\ res' = OpenUnwind(OpenAcquired(point), OpenLabel(point))
    /\ open_ret' = FALSE
    /\ UNCHANGED <<ap_vars, unpaused, lock, pc, l, cb_vars, swr_comp, push_ret,
                   hist_vars, npush,
                   push_in,
                   session_vars>>

OpenOk ==
    /\ pc = "closed"
    /\ nopen < MaxOpens
    /\ nopen' = nopen + 1
    /\ res' = AllRes
    /\ sample_rate' = SampleRate
    /\ target_buffering' =
           open_target_buffering(TargetBufferingDelay, SampleRate)
    /\ buf' = sc_audiobuf_init'
    /\ swr_buf_alloc_size' = TO_BYTES(SwrBufInitialSamples)
    /\ previous_can_write' = sc_audiobuf_can_write(sc_audiobuf_init)'
    /\ avg_buffering' = sc_average_init
    /\ samples_since_resync' = 0
    /\ received' = FALSE
    /\ played' = FALSE
    /\ pc' = "opening"
    \* the history is that of the session's ring
    /\ produced' = 0
    /\ out' = << >>
    /\ dropped' = {}
    /\ ring_in' = 0
    /\ ring_out' = 0
    /\ UNCHANGED <<unpaused, lock, l, cb_vars, swr_comp, push_ret, open_ret,
                   npush,
                   push_in>>

\* lines 370-372: SDL_PauseAudioDevice(ap->device, 0); return true
OpenUnpause ==
    /\ pc = "opening"
    /\ unpaused' = TRUE
    /\ open_ret' = TRUE
    /\ pc' = "idle"
    /\ UNCHANGED <<ap_vars, res, lock, l, cb_vars, swr_comp, push_ret,
                   hist_vars, npush, nopen,
                   push_in,
                   session_vars>>

(***************************************************************************)
(* sc_audio_player_frame_sink_close.  SDL_CloseAudioDevice returns once    *)
(* the callback in progress, if any, has returned.                         *)
(***************************************************************************)
\* what close holds once the device is closed
close_device(held) == [held EXCEPT !.device = FALSE]

\* mutant: the buffers and the resampler are released while the device runs
Close_frees_first ==
    /\ pc = "idle"
    /\ cb = "idle"
    /\ res' = [res EXCEPT !.swr_buf = FALSE, !.audiobuf = FALSE,
                          !.swr_ctx = FALSE]
    /\ pc' = "closing"
    /\ UNCHANGED <<ap_vars, unpaused, lock, l, cb_vars, swr_comp, push_ret,
                   open_ret, hist_vars, push_in, npush, nopen,
                   session_vars>>

\* lines 388-390: SDL_PauseAudioDevice(ap->device, 1); SDL_CloseAudioDevice
Close ==
    /\ pc = "idle"
    /\ cb = "idle"
    /\ unpaused' = FALSE
    /\ res' = close_device(res)
    /\ pc' = "closing"
    /\ UNCHANGED <<ap_vars, lock, l, cb_vars, swr_comp, push_ret, open_ret,
                   hist_vars, npush, nopen,
                   push_in,
                   session_vars>>

\* lines 392-394: free(swr_buf); sc_audiobuf_destroy; swr_free
CloseFree ==
    /\ pc = "closing"
    /\ res' = [res EXCEPT !.swr_buf = FALSE, !.audiobuf = FALSE,
                          !.swr_ctx = FALSE]
    /\ pc' = "closed"
    /\ UNCHANGED <<ap_vars, unpaused, lock, l, cb_vars, swr_comp, push_ret,
                   open_ret, hist_vars, npush, nopen,
                   push_in,
                   session_vars>>


(***************************************************************************)
(* sc_audio_player_frame_sink_push, lines 100-132: outside the lock.       *)
(***************************************************************************)
dst_nb_samples(swr_delay, nb_samples) == swr_delay + nb_samples + SwrHeadroom

\* sc_audio_player_get_swr_buf has to grow the scratch buffer
swr_buf_must_grow(min_samples) == TO_BYTES(min_samples) > swr_buf_alloc_size

swr_buf_size_after(min_samples) ==
    IF swr_buf_must_grow(min_samples)
    THEN TO_BYTES(min_samples) + SwrBufGrowBytes
    ELSE swr_buf_alloc_size

lockless_write(samples_written, prev_can_write) ==
    samples_written <= prev_can_write

PushReturnFalse ==
    /\ push_ret' = FALSE
    /\ npush' = npush + 1
    /\ UNCHANGED <<buf, avg_buffering, played, received, previous_can_write,
                   samples_since_resync, res, unpaused, lock, pc, l, cb_vars,
                   swr_comp, open_ret, hist_vars, nopen,
                   session_vars>>

\* mutant: a conversion that yields no sample is taken for a failure
convert_failed_or_empty(ret) == ret <= 0

\* line 113
convert_failed(ret) == ret < 0

\* realloc fails: return false at line 109
PushAllocFail(nb_samples, swr_delay) ==
    /\ pc = "idle"
    /\ npush < MaxPushes
    /\ swr_buf_must_grow(dst_nb_samples(swr_delay, nb_samples))
    /\ push_in' = [realloc_ok |-> FALSE, ret |-> 0]
    /\ UNCHANGED swr_buf_alloc_size
    /\ PushReturnFalse

\* swr_convert fails: return false at line 116
PushConvertFail(nb_samples, swr_delay, ret) ==
    /\ pc = "idle"
    /\ npush < MaxPushes
    /\ convert_failed(ret)
    /\ push_in' = [realloc_ok |-> TRUE, ret |-> ret]
    /\ swr_buf_alloc_size' =
           swr_buf_size_after(dst_nb_samples(swr_delay, nb_samples))
    /\ PushReturnFalse

\* lines 100-130: the frame is resampled into swr_buf
PushResample(nb_samples, swr_delay, ret) ==
    /\ pc = "idle"
    /\ ~convert_failed(ret)
    /\ push_in' = [realloc_ok |-> TRUE, ret |-> ret]
    /\ LET dst == dst_nb_samples(swr_delay, nb_samples)
           samples_written == MIN(ret, dst)
           lockless == lockless_write(samples_written, previous_can_write)
       IN  /\ swr_buf_alloc_size' = swr_buf_size_after(dst)
           /\ l' = [nb_samples |-> nb_samples,
                    samples_written |-> samples_written,
                    lockless_write |-> lockless,
                    first |-> produced + 1,
                    buffered_samples |-> 0,
                    played |-> FALSE,
                    skip_samples |-> 0,
                    asserts |-> TRUE]
           /\ produced' = produced + samples_written
           /\ pc' = IF lockless THEN "prepare" ELSE "lock"
    /\ npush' = npush + 1
    /\ UNCHANGED <<buf, avg_buffering, played, received, previous_can_write,
                   samples_since_resync, res, unpaused, lock, cb_vars,
                   swr_comp, push_ret, open_ret, out, dropped, ring_in,
                   ring_out, nopen,
                   session_vars>>

PushBegin(nb_samples, swr_delay, ret) ==
    /\ npush < MaxPushes
    /\ PushResample(nb_samples, swr_delay, ret)

\* mutant: the unlocked copy also publishes the samples
push_prepare_commits(b, loc) ==
    sc_audiobuf_write(b, loc.first, loc.samples_written)

\* line 131: what the unlocked copy does to the ring
push_prepare(b, loc) ==
    sc_audiobuf_prepare_write(b, loc.first, loc.samples_written)

PushPrepare ==
    /\ pc = "prepare"
    /\ buf' = push_prepare(buf, l)
    /\ pc' = "lock"
    /\ UNCHANGED <<avg_buffering, played, received, previous_can_write,
                   samples_since_resync, swr_buf_alloc_size, res, unpaused,
                   lock, l, cb_vars, swr_comp, push_ret, open_ret, hist_vars,
                   npush, nopen,
                   push_in,
                   session_vars>>

\* line 134: SDL_LockAudioDevice returns once the lock is free
lock_available == lock = "none"

\* mutant: the push goes on without taking the lock
PushLock_missing ==
    /\ pc = "lock"
    /\ pc' = "critical"
    /\ UNCHANGED <<ap_vars, res, unpaused, lock, l, cb_vars, swr_comp,
                   push_ret, open_ret, hist_vars, npush, nopen,
                   push_in,
                   session_vars>>

PushLock ==
    /\ pc = "lock"
    /\ lock_available
    /\ lock' = "producer"
    /\ pc' = "critical"
    /\ UNCHANGED <<ap_vars, res, unpaused, l, cb_vars, swr_comp, push_ret,
                   open_ret, hist_vars, npush, nopen,
                   push_in,
                   session_vars>>

(***************************************************************************)
(* Lines 136-179, under the lock: commit the prepared samples, or make     *)
(* room and write.  The result is the ring, the average, the values of the *)
(* locals samples_written and buffered_samples at line 179, the local      *)
(* skip_samples of line 160 (0 when that branch is not entered), whether   *)
(* the assertions of lines 158, 161 and 172 held, and the id ranges that   *)
(* were discarded.                                                         *)
(***************************************************************************)
IdRange(lo, n) == IF n > 0 THEN {<<lo, lo + n - 1>>} ELSE {}
SkipRange(b, n) == IdRange(sc_audiobuf_peek(b, 0), n)

\* mutant: the first samples of an oversized frame are kept, not the last
ignored_none(samples_written, cap) == 0

\* line 152: the samples of swr_buf that are passed over
ignored_samples(samples_written, cap) == samples_written - cap

\* mutant: one sample too few is skipped to make room
overflow_skip_one_less(samples_written, can_write) ==
    samples_written - can_write - 1

\* line 160
overflow_skip_samples(samples_written, can_write) == samples_written - can_write

\* mutant: the local count is not updated after the write
buffered_after_write_stale(buffered_samples, samples_written) ==
    buffered_samples

\* line 178
buffered_after_write(buffered_samples, samples_written) ==
    buffered_samples + samples_written

push_store(b, a, pl, loc) ==
    LET buffered0 == sc_audiobuf_can_read(b)
        sw == loc.samples_written
    IN  IF loc.lockless_write
        THEN [buf |-> sc_audiobuf_commit_write(b, sw),
              avg |-> a,
              samples_written |-> sw,
              buffered_samples |-> buffered_after_write(buffered0, sw),
              skipped |-> 0,
              asserts |-> TRUE,
              drops |-> {}]
        ELSE
          LET can_write == sc_audiobuf_can_write(b)
              cap == sc_audiobuf_capacity
              over == sw > can_write
              clamp == over /\ sw > cap
              \* swr_buf += TO_BYTES(samples_written - cap)
              ignored == IF clamp THEN ignored_samples(sw, cap) ELSE 0
              sw1 == IF clamp THEN cap ELSE sw
              skip_samples ==
                  IF over /\ sw1 > can_write
                  THEN overflow_skip_samples(sw1, can_write) ELSE 0
              b1 == sc_audiobuf_skip(b, skip_samples)
              buffered1 == buffered0 - skip_samples
              a1 == IF skip_samples > 0 /\ pl
                    THEN avg_add(a, -skip_samples) ELSE a
          IN  [buf |-> sc_audiobuf_write(b1, loc.first + ignored, sw1),
               avg |-> a1,
               samples_written |-> sw1,
               buffered_samples |-> buffered_after_write(buffered1, sw1),
               skipped |-> skip_samples,
               asserts |-> over =>
                             /\ sw1 >= can_write
                             /\ skip_samples > 0 => buffered0 >= skip_samples
                             /\ sc_audiobuf_can_write(b1) = sw1,
               drops |-> IdRange(loc.first, ignored)
                           \cup SkipRange(b, skip_samples)]

(***************************************************************************)
(* Lines 182-222, under the lock: the buffering thresholds and the         *)
(* moving average.                                                         *)
(***************************************************************************)
\* mutant: one sample too few is skipped
threshold_skip_one_less(buffered_samples, max) ==
    IF buffered_samples > max THEN buffered_samples - max - 1 ELSE 0

\* mutant: the operands of the subtraction are swapped
threshold_skip_swapped(buffered_samples, max) ==
    IF buffered_samples > max THEN max - buffered_samples ELSE 0

\* lines 187-188 and 214-215
threshold_skip_samples(buffered_samples, max) ==
    IF buffered_samples > max THEN buffered_samples - max ELSE 0

\* mutant: the operands of the subtraction are swapped
instant_compensation_swapped(samples_written, nb_samples) ==
    nb_samples - samples_written

\* lines 195-196
instant_compensation_samples(samples_written, nb_samples) ==
    samples_written - nb_samples

push_threshold(b, a, pl, samples_written, buffered_samples, nb_samples) ==
    IF pl
    THEN LET skip_samples ==
                 threshold_skip_samples(buffered_samples, max_buffered_samples)
             instant_compensation ==
                 instant_compensation_samples(samples_written, nb_samples)
         IN  [buf |-> sc_audiobuf_skip(b, skip_samples),
              avg |-> sc_average_push(avg_add(a, instant_compensation),
                                      buffered_samples),
              skipped |-> skip_samples,
              drops |-> SkipRange(b, skip_samples)]
    ELSE LET skip_samples ==
                 threshold_skip_samples(buffered_samples, max_initial_buffering)
         IN  [buf |-> sc_audiobuf_skip(b, skip_samples),
              avg |-> a,
              skipped |-> skip_samples,
              drops |-> SkipRange(b, skip_samples)]

\* mutant: the capacity is recorded instead of the writable space
refreshed_capacity(b) == sc_audiobuf_capacity

\* line 224
refreshed_can_write(b) == sc_audiobuf_can_write(b)

\* mutant: the push leaves the critical section with the lock held
push_keeps_lock == "producer"

\* line 227: SDL_UnlockAudioDevice
push_unlock == "none"

\* lines 136-227
PushCritical ==
    /\ pc = "critical"
    /\ \E s \in {push_store(buf, avg_buffering, played, l)} :
       \E t \in {push_threshold(s.buf, s.avg, played, s.samples_written,
                                s.buffered_samples, l.nb_samples)} :
           /\ buf' = t.buf
           /\ avg_buffering' = t.avg
           /\ l' = [l EXCEPT !.samples_written = s.samples_written,
                             !.buffered_samples = s.buffered_samples,
                             !.played = played,
                             !.skip_samples = s.skipped,
                             !.asserts = s.asserts]
           /\ previous_can_write' = refreshed_can_write(t.buf)
           /\ dropped' = dropped \cup s.drops \cup t.drops
           /\ ring_in' = ring_in + s.samples_written
           /\ ring_out' = ring_out + s.skipped + t.skipped
    /\ received' = TRUE
    /\ lock' = push_unlock
    /\ pc' = "resync"
    /\ UNCHANGED <<played, samples_since_resync, swr_buf_alloc_size, res,
                   unpaused, cb_vars, swr_comp, push_ret, open_ret, produced,
                   out, npush, nopen,
                   push_in,
                   session_vars>>

(***************************************************************************)
(* Lines 229-259, after the unlock: the periodic compensation.             *)
(***************************************************************************)
\* (int) of a fraction: towards zero
TruncFrac(n, d) == IF n >= 0 THEN n \div d ELSE -((-n) \div d)

\* mutant: the veto uses the margin of the callback's gate
accelerate_vetoed_within_margin(diff, buffered_samples) ==
    diff < 0 /\ buffered_samples + margin < target_buffering

\* line 237: do not accelerate while the level is below the target
accelerate_vetoed(diff, buffered_samples) ==
    diff < 0 /\ buffered_samples < target_buffering

\* mutant: the rate of the compensation is not limited
compensation_unlimited(distance) == distance

\* line 246
compensation_abs_max_diff(distance) == distance \div CompensationRatio

\* lines 235-251: the diff and the distance handed to the resampler
compensation_diff(a, buffered_samples) ==
    LET avg == sc_average_get(a)
        diff0 == TruncFrac(target_buffering * avg.d - avg.n, avg.d)
        diff1 == IF accelerate_vetoed(diff0, buffered_samples)
                 THEN 0 ELSE diff0
        distance == CompensationSeconds * sample_rate
        abs_max_diff == compensation_abs_max_diff(distance)
    IN  [diff |-> CLAMP(diff1, -abs_max_diff, abs_max_diff),
         distance |-> distance,
         ok |-> TRUE]

\* line 231
resync_due(since) == since >= sample_rate

\* mutant: the samples beyond one second are carried over
resync_keep_excess(since) == since - sample_rate

\* line 233: samples_since_resync once the recompute is entered
resync_restart(since) == 0

\* mutant: the push fails when the resampler refuses the compensation
push_result_of_compensation(compensation_ok) == compensation_ok

\* lines 252-259: the value push returns once the samples are committed
push_result(compensation_ok) == TRUE

\* compensation_ok: swr_set_compensation, if called, returns 0
PushFinish(compensation_ok) ==
    /\ pc = "resync"
    /\ LET since == samples_since_resync + l.samples_written
           due == l.played /\ resync_due(since)
       IN  /\ IF l.played
              THEN IF resync_due(since)
                   THEN /\ samples_since_resync' = resync_restart(since)
                        /\ swr_comp' =
                             Append(swr_comp,
                                    [compensation_diff(avg_buffering,
                                                       l.buffered_samples)
                                     EXCEPT !.ok = compensation_ok])
                   ELSE /\ samples_since_resync' = since
                        /\ UNCHANGED swr_comp
              ELSE UNCHANGED <<samples_since_resync, swr_comp>>
           /\ push_ret' = push_result(due => compensation_ok)
    /\ l' = NoLocals
    /\ pc' = "idle"
    /\ UNCHANGED <<buf, avg_buffering, played, received, previous_can_write,
                   swr_buf_alloc_size, res, unpaused, lock, cb_vars, open_ret,
                   hist_vars, push_in, npush, nopen,
                   session_vars>>


(***************************************************************************)
(* sc_audio_player_sdl_callback.  SDL takes the device lock, runs the      *)
(* callback and releases the lock.  The output buffer is an array of len   *)
(* bytes that SDL does not initialise.  A byte of it is NotWritten, 0      *)
(* (silence), or SampleByte(id, j): byte j of the sample id.               *)
(***************************************************************************)
NotWritten == 0 - 1
SampleByte(id, j) == (id - 1) * sample_size + j + 1

\* memset(stream + off, 0, n), off and n in bytes
Memset0(s, off, n) ==
    [i \in 1..Len(s) |-> IF off < i /\ i <= off + n THEN 0 ELSE s[i]]

\* sc_audiobuf_read(&ap->buf, stream, read): the bytes of read samples
CopySamples(s, samples) ==
    [i \in 1..Len(s) |->
        IF i <= TO_BYTES(Len(samples))
        THEN SampleByte(samples[((i - 1) \div sample_size) + 1],
                        (i - 1) % sample_size)
        ELSE s[i]]

\* mutant: the callback never waits
initial_buffering_never(buffered_samples) == FALSE

\* mutant: the level is compared with the margin
initial_buffering_below_margin(buffered_samples) == buffered_samples < margin

\* line 41
initial_buffering(buffered_samples) ==
    buffered_samples + margin < target_buffering

\* mutant: the callback reads count samples whatever the ring holds
cb_read_count(buffered_samples, count) == count

\* line 52
cb_read(buffered_samples, count) == MIN(buffered_samples, count)

\* line 66: where the silence starts, in bytes from stream
silence_offset(read) == read

\* mutant: an underflow sends the player back to buffering
played_unless_underflow(read, count) == read >= count

\* line 74
played_after_callback(read, count) == TRUE

\* SDL calls the callback with the device lock held
CbLock(len) ==
    /\ unpaused
    /\ cb = "idle"
    /\ lock_available
    /\ lock' = "consumer"
    /\ cb' = "run"
    /\ cb_len' = len
    /\ stream' = [i \in 1..len |-> NotWritten]
    /\ UNCHANGED <<ap_vars, res, unpaused, pc, l, swr_comp, push_ret, open_ret,
                   hist_vars, npush, nopen,
                   push_in,
                   session_vars>>

CbEnter(len) ==
    /\ npull < MaxPulls
    /\ npull' = npull + 1
    /\ CbLock(len)

\* lines 28-75, then SDL releases the lock
CbRun ==
    /\ cb = "run"
    /\ LET count == TO_SAMPLES(cb_len)
           buffered_samples == sc_audiobuf_can_read(buf)
       IN  IF ~played /\ initial_buffering(buffered_samples)
           THEN /\ stream' = Memset0(stream, 0, cb_len)
                /\ UNCHANGED <<buf, avg_buffering, played, out, ring_out>>
           ELSE LET read == cb_read(buffered_samples, count)
                    samples == sc_audiobuf_read_samples(buf, read)
                    s1 == CopySamples(stream, samples)
                    silence == count - read
                IN  /\ buf' = sc_audiobuf_read(buf, read)
                    /\ out' = out \o samples
                    /\ ring_out' = ring_out + read
                    /\ stream' = IF read < count
                                 THEN Memset0(s1, silence_offset(read),
                                              TO_BYTES(silence))
                                 ELSE s1
                    /\ avg_buffering' =
                          IF read < count /\ received
                          THEN avg_add(avg_buffering, silence)
                          ELSE avg_buffering
                    /\ played' = played_after_callback(read, count)
    /\ lock' = "none"
    /\ cb' = "idle"
    /\ UNCHANGED <<received, previous_can_write, samples_since_resync,
                   swr_buf_alloc_size, res, unpaused, pc, l, cb_len, swr_comp,
                   push_ret, open_ret, produced, dropped, ring_in, push_in,
                   npush, npull, nopen,
                   session_vars>>

(***************************************************************************)
(* The two threads.                                                        *)
(***************************************************************************)
Producer ==
    \/ \E point \in OpenFailPoints : OpenFail(point)
    \/ OpenOk
    \/ OpenUnpause
    \/ \E f \in FrameIn : PushAllocFail(f[1], f[2])
    \/ \E f \in FrameIn : PushConvertFail(f[1], f[2], f[3])
    \/ \E f \in FrameIn : PushBegin(f[1], f[2], f[3])
    \/ PushPrepare
    \/ PushLock
    \/ PushCritical
    \/ \E compensation_ok \in BOOLEAN : PushFinish(compensation_ok)
    \/ Close
    \/ CloseFree

Consumer ==
    \/ \E len \in LenIn : CbEnter(len)
    \/ CbRun

Next == Producer \/ Consumer

Spec == Init /\ [][Next]_vars

(***************************************************************************)
(* Well-formedness of the model's state.                                   *)
(***************************************************************************)
TypeOK ==
    /\ buf.head \in 0..(Alloc - 1)
    /\ buf.tail \in 0..(Alloc - 1)
    /\ played \in BOOLEAN
    /\ received \in BOOLEAN
    /\ previous_can_write \in 0..sc_audiobuf_capacity
    /\ samples_since_resync \in Nat
    /\ lock \in {"none", "producer", "consumer"}
    /\ pc \in {"closed", "opening", "idle", "prepare", "lock", "critical",
             "resync", "closing"}
    /\ cb \in {"idle", "run"}
    /\ avg_buffering.avg.d > 0


(***************************************************************************)
(* Vocabulary of the properties.                                           *)
(***************************************************************************)
can_read == sc_audiobuf_can_read(buf)
can_write == sc_audiobuf_can_write(buf)

\* number of samples committed to the ring and neither read nor skipped
Occupancy == ring_in - ring_out

\* the last sample id committed to the ring
Committed ==
    IF pc \in {"prepare", "lock", "critical"} THEN l.first - 1 ELSE produced

InDropped(id) == \E r \in dropped : r[1] <= id /\ id <= r[2]
InOut(id) == \E i \in 1..Len(out) : out[i] = id

\* the steps of the two threads
PrepareStep == pc = "prepare" /\ pc' = "lock"
CriticalStep == pc = "critical" /\ pc' = "resync"
CallbackStep == cb = "run" /\ cb' = "idle"

StreamAllZero(s) == \A i \in 1..Len(s) : s[i] = 0

\* the readable samples are consecutive ids, the newest one last
RingContiguous ==
    \A k \in 0..(can_read - 1) :
        sc_audiobuf_peek(buf, k) = Committed - (can_read - 1) + k

(***************************************************************************)
(* C1: whatever the interleaving of the pushes (prepare_write,             *)
(* commit_write, write, skip) and of the callbacks (read), the ring        *)
(* satisfies can_read + can_write = capacity, and the unlocked             *)
(* prepare_write step of a push changes neither can_read nor can_write.    *)
(***************************************************************************)
C1_RingBalance ==
    /\ [](can_read + can_write = sc_audiobuf_capacity)
    /\ [][PrepareStep =>
            /\ sc_audiobuf_can_read(buf') = can_read
            /\ sc_audiobuf_can_write(buf') = can_write]_vars

\* a prepared, uncommitted write on a ring that has been written, read and
\* skipped
C1_Witness ==
    /\ pc = "lock"
    /\ l.lockless_write
    /\ l.samples_written > 0
    /\ buf.data[buf.head] = l.first
    /\ can_read > 0
    /\ Len(out) > 0
    /\ dropped # {}

C3_FastPathSafe ==
    /\ previous_can_write <= can_write
    /\ (pc \in {"prepare", "lock", "critical"} /\ l.lockless_write) =>
           l.samples_written <= can_write
    /\ (pc \in {"lock", "critical"} /\ l.lockless_write) =>
           /\ \A k \in 0..(l.samples_written - 1) :
                  buf.data[(buf.head + k) % Alloc] = l.first + k
           /\ \A k \in 0..(can_read - 1) :
                  sc_audiobuf_peek(buf, k) = l.first - can_read + k

\* a callback holds the lock while prepared samples wait for their commit
C3_Witness ==
    /\ pc = "lock"
    /\ l.lockless_write
    /\ l.samples_written > 0
    /\ lock = "consumer"
    /\ can_read > 0
    /\ previous_can_write < sc_audiobuf_capacity

(***************************************************************************)
(* C4: a step that moves a ring cursor or changes avg is taken by a thread *)
(* that holds the device lock (the producer in its critical section, or    *)
(* the callback), and the two are never in their critical sections at the  *)
(* same time.  Open, which creates the ring and the average before the     *)
(* device runs, is not such a mutation.                                    *)
(***************************************************************************)
C4_MutationsUnderLock ==
    /\ [](~(pc = "critical" /\ cb = "run"))
    /\ [][(/\ pc # "closed"
           /\ \/ buf'.head # buf.head
              \/ buf'.tail # buf.tail
              \/ avg_buffering'.avg # avg_buffering.avg)
          => \/ CriticalStep /\ lock = "producer" /\ cb = "idle"
             \/ CallbackStep /\ lock = "consumer" /\ pc # "critical"]_vars

\* the producer holds the lock on the slow path after the callback has read
\* samples and adjusted avg
C4_Witness ==
    /\ pc = "critical"
    /\ lock = "producer"
    /\ ~l.lockless_write
    /\ played
    /\ Len(out) > 0
    /\ avg_buffering.avg.n # 0


(***************************************************************************)
(* C5: between the unlock of a push and its read of avg for the periodic   *)
(* recompute (the push is at line 229 and will enter the recompute), no    *)
(* step changes avg.                                                       *)
(***************************************************************************)
RecomputePending ==
    /\ pc = "resync"
    /\ l.played
    /\ samples_since_resync + l.samples_written >= sample_rate

C5_AvgStableBeforeRecompute ==
    [][RecomputePending => avg_buffering'.avg = avg_buffering.avg]_vars

(***************************************************************************)
(* C6: when a callback has returned, each of the len bytes of the output   *)
(* buffer has been written, that is count * sample_size bytes with         *)
(* count = len / sample_size, on every branch.                             *)
(***************************************************************************)
C6_WholeBufferWritten ==
    (cb = "idle" /\ npull > 0) =>
        /\ Len(stream) = cb_len
        /\ TO_BYTES(TO_SAMPLES(cb_len)) = cb_len
        /\ \A i \in 1..Len(stream) : stream[i] # NotWritten

(***************************************************************************)
(* C7: a callback that starts with played false and with                   *)
(* can_read + margin < target_buffering fills the buffer with silence,     *)
(* leaves played false and changes neither the ring, nor avg, nor          *)
(* received, and copies no sample out.                                     *)
(***************************************************************************)
C7_InitialBufferingSilence ==
    [][(CallbackStep /\ ~played /\ can_read + margin < target_buffering)
       => /\ Len(stream') = cb_len
          /\ StreamAllZero(stream')
          /\ ~played'
          /\ buf' = buf
          /\ avg_buffering' = avg_buffering
          /\ received' = received
          /\ out' = out]_vars

\* a callback has returned silence although samples were waiting
C7_Witness ==
    /\ cb = "idle"
    /\ npull > 0
    /\ ~played
    /\ received
    /\ can_read > 0
    /\ can_read + margin < target_buffering
    /\ Len(stream) > 0
    /\ StreamAllZero(stream)

(***************************************************************************)
(* C8: within an open session, once played is true it stays true: no step  *)
(* of a push and no callback, underflowing or not, resets it.              *)
(***************************************************************************)
C8_PlayedIsStable ==
    [][(played /\ pc # "closed") => played']_vars

\* a callback found the ring empty while playing and returned only silence
C8_Witness ==
    /\ played
    /\ cb = "idle"
    /\ Len(out) > 0
    /\ can_read = 0
    /\ Len(stream) > 0
    /\ StreamAllZero(stream)

(***************************************************************************)
(* C9: after a push has left its critical section, on any path, the ring   *)
(* holds between 0 and capacity samples: the number of samples committed   *)
(* and neither read nor skipped is can_read and lies in 0..capacity.       *)
(***************************************************************************)
C9_CanReadInRange ==
    (pc = "resync") =>
        /\ 0 <= can_read
        /\ can_read <= sc_audiobuf_capacity
        /\ can_read = Occupancy

\* after an oversized frame pushed while the ring held samples
C9_Witness ==
    /\ pc = "resync"
    /\ ~l.lockless_write
    /\ l.samples_written = sc_audiobuf_capacity
    /\ \E r \in dropped : r[1] < l.first /\ r[2] < l.first

(***************************************************************************)
(* C10: when a push releases the lock, the readable count is at most       *)
(* max_buffered_samples if played was true under the lock and at most      *)
(* max_initial_buffering if it was false; what was removed are the oldest  *)
(* samples: the ring holds the newest ones.                                *)
(***************************************************************************)
BufferingCap(pl) ==
    IF pl THEN max_buffered_samples ELSE max_initial_buffering

C10_BufferingCapped ==
    [][CriticalStep =>
        LET n == sc_audiobuf_can_read(buf')
        IN  /\ n <= BufferingCap(played)
            /\ n = MIN(l'.buffered_samples, BufferingCap(played))
            /\ \A k \in 0..(n - 1) :
                   sc_audiobuf_peek(buf', k) = produced - (n - 1) + k]_vars

\* the threshold skip has brought a playing ring down to its cap
C10_Witness ==
    /\ pc = "resync"
    /\ l.played
    /\ l.buffered_samples > max_buffered_samples
    /\ can_read = max_buffered_samples

(***************************************************************************)
(* C11: a callback that passes the initial-buffering gate (played is true, *)
(* or can_read + margin >= target_buffering) and finds can_read < count    *)
(* delivers the can_read readable samples, in order, followed by           *)
(* count - can_read samples of zeros, leaves the ring empty, and adds      *)
(* count - can_read to avg if received is true and leaves avg unchanged    *)
(* otherwise.                                                              *)
(***************************************************************************)
PassesGate == played \/ can_read + margin >= target_buffering

\* the bytes of the readable samples, oldest first, then zeros up to len
ExpectedUnderflowStream(b, len) ==
    [i \in 1..len |->
        IF i <= TO_BYTES(sc_audiobuf_can_read(b))
        THEN SampleByte(sc_audiobuf_peek(b, (i - 1) \div sample_size),
                        (i - 1) % sample_size)
        ELSE 0]

C11_UnderflowDelivery ==
    [][(CallbackStep /\ PassesGate /\ can_read < TO_SAMPLES(cb_len))
       => /\ stream' = ExpectedUnderflowStream(buf, cb_len)
          /\ sc_audiobuf_can_read(buf') = 0
          /\ avg_buffering' =
                IF received
                THEN avg_add(avg_buffering, TO_SAMPLES(cb_len) - can_read)
                ELSE avg_buffering]_vars

(***************************************************************************)
(* C12: a push on the slow path that finds can_write < samples_written     *)
(* with samples_written <= capacity skips exactly                          *)
(* samples_written - can_write samples, the oldest ones and never more     *)
(* than the readable count; can_write then equals samples_written, all the *)
(* samples are written, the assertions of the branch hold, and avg is      *)
(* decreased by the skipped count if played is true and not otherwise.     *)
(***************************************************************************)
SlowOverflow ==
    /\ ~l.lockless_write
    /\ can_write < l.samples_written
    /\ l.samples_written <= sc_audiobuf_capacity

C12_OverflowSkip ==
    [][(CriticalStep /\ SlowOverflow) =>
        LET n == l.samples_written - can_write
        IN  /\ l'.skip_samples = n
            /\ n <= can_read
            /\ IdRange(sc_audiobuf_peek(buf, 0), n) \subseteq dropped'
            /\ can_write + n = l.samples_written
            /\ l'.asserts
            /\ l'.samples_written = l.samples_written
            /\ ring_in' = ring_in + l.samples_written
            /\ l'.buffered_samples = can_read - n + l.samples_written
            /\ avg_buffering'.avg =
                 IF played
                 THEN sc_average_push(
                          avg_add(avg_add(avg_buffering, -n),
                                  l.samples_written - l.nb_samples),
                          l'.buffered_samples).avg
                 ELSE avg_buffering.avg]_vars

\* a playing ring had to drop its oldest samples to take a frame that fits
C12_Witness ==
    /\ pc = "resync"
    /\ ~l.lockless_write
    /\ l.played
    /\ l.skip_samples > 0
    /\ l.samples_written < sc_audiobuf_capacity
    /\ l.asserts
    /\ Len(out) > 0

(***************************************************************************)
(* C13: when the resampler yields more samples than the capacity of the    *)
(* ring, the push discards the first samples_written - capacity of them,   *)
(* clamps samples_written to capacity, skips every sample that was         *)
(* readable and writes the last capacity samples, so that before the       *)
(* threshold skip the ring holds exactly those; the push returns true.     *)
(***************************************************************************)
Oversized == l.samples_written > sc_audiobuf_capacity

\* at line 229: the frame of this push was larger than the ring
WasOversized ==
    /\ pc = "resync"
    /\ produced - l.first + 1 > sc_audiobuf_capacity

C13_OversizedFrame ==
    /\ [][(CriticalStep /\ Oversized) =>
            LET cap == sc_audiobuf_capacity
                excess == l.samples_written - cap
                n == sc_audiobuf_can_read(buf')
            IN  /\ ~l.lockless_write
                /\ IdRange(l.first, excess) \subseteq dropped'
                /\ l'.samples_written = cap
                /\ l'.skip_samples = can_read
                /\ IdRange(sc_audiobuf_peek(buf, 0), can_read)
                       \subseteq dropped'
                /\ l'.asserts
                /\ ring_in' = ring_in + cap
                /\ l'.buffered_samples = cap
                \* the threshold skip then removes the oldest of them
                /\ IdRange(l.first + excess, cap - n) \subseteq dropped'
                /\ \A k \in 0..(n - 1) :
                       sc_audiobuf_peek(buf', k) = produced - (n - 1) + k]_vars
    /\ [][(WasOversized /\ pc' = "idle") => push_ret']_vars

\* an oversized frame replaced everything the ring held and push succeeded
C13_Witness ==
    /\ pc = "idle"
    /\ push_ret
    /\ push_in.ret > sc_audiobuf_capacity
    \* the head of the frame, and before it the samples that were readable
    /\ \E r, q \in dropped :
           /\ r[2] = produced - sc_audiobuf_capacity
           /\ q[2] = r[1] - 1
    /\ can_read > 0

(***************************************************************************)
(* C14: a push hands a compensation to the resampler exactly when played   *)
(* was true under its lock and samples_since_resync + samples_written      *)
(* reaches sample_rate; it does so at most once and resets                 *)
(* samples_since_resync to 0.  Otherwise a playing push adds               *)
(* samples_written to samples_since_resync.  After every push              *)
(* samples_since_resync < sample_rate.  While played is false              *)
(* samples_since_resync does not change and no compensation is handed.     *)
(***************************************************************************)
ResyncStep == pc = "resync" /\ pc' = "idle"

C14_PeriodicRecompute ==
    /\ [](pc # "closed" => samples_since_resync < sample_rate)
    /\ [][ResyncStep =>
            LET since == samples_since_resync + l.samples_written
                due == l.played /\ since >= sample_rate
            IN  /\ Len(swr_comp') = Len(swr_comp) + (IF due THEN 1 ELSE 0)
                /\ due => samples_since_resync' = 0
                /\ (l.played /\ ~due) => samples_since_resync' = since
                /\ ~l.played => samples_since_resync' = samples_since_resync
          ]_vars
    /\ [][~ResyncStep =>
            /\ swr_comp' = swr_comp
            /\ pc # "closed" => samples_since_resync' = samples_since_resync
          ]_vars
    /\ [][~played =>
            /\ swr_comp' = swr_comp
            /\ samples_since_resync' = samples_since_resync]_vars

\* a playing push reached one second of samples: one compensation, and the
\* count starts again
C14_Witness ==
    /\ pc = "idle"
    /\ played
    /\ push_ret
    /\ Len(swr_comp) = 1
    /\ samples_since_resync = 0
    /\ ring_in > sample_rate

(***************************************************************************)
(* The recompute alone.  A push is at line 229: it played, it wrote one    *)
(* sample, and samples_since_resync is one or two samples short of a       *)
(* second.  avg and the level after the write are drawn from bounded sets: *)
(* in the program avg is the mean of up to 32 levels, moved by the skips,  *)
(* the silences and the instant compensations.                             *)
(***************************************************************************)
MaxAvg == 24
MaxAvgDenominator == 2
MaxLevel == 12

AvgIn == {Frac(n, d) : n \in (0 - MaxAvg)..MaxAvg, d \in 1..MaxAvgDenominator}
LevelIn == 1..MaxLevel

InitComp ==
    /\ sample_rate = SampleRate
    /\ target_buffering =
           open_target_buffering(TargetBufferingDelay, SampleRate)
    /\ buf = sc_audiobuf_write(sc_audiobuf_init, 1, 1)
    /\ \E a \in AvgIn :
           avg_buffering = [range |-> AverageRange, count |-> 1, avg |-> a]
    /\ played = TRUE
    /\ received = TRUE
    /\ previous_can_write = sc_audiobuf_capacity - 1
    /\ samples_since_resync \in {sample_rate - 2, sample_rate - 1}
    /\ swr_buf_alloc_size = TO_BYTES(SwrBufInitialSamples)
    /\ res = AllRes
    /\ unpaused = TRUE
    /\ lock = "none"
    /\ pc = "resync"
    /\ \E level \in LevelIn :
           l = [NoLocals EXCEPT !.nb_samples = 1, !.samples_written = 1,
                                !.lockless_write = TRUE, !.first = 1,
                                !.buffered_samples = level, !.played = TRUE]
    /\ cb = "idle"
    /\ cb_len = 0
    /\ stream = << >>
    /\ swr_comp = << >>
    /\ push_ret = TRUE
    /\ open_ret = TRUE
    /\ produced = 1
    /\ out = << >>
    /\ dropped = {}
    /\ ring_in = 1
    /\ ring_out = 0
    /\ push_in = [realloc_ok |-> TRUE, ret |-> 1]
    /\ npush = 1
    /\ npull = 0
    /\ nopen = 1

NextComp == \E compensation_ok \in BOOLEAN : PushFinish(compensation_ok)

SpecComp == InitComp /\ [][NextComp]_vars

\* the compensation that the step hands to the resampler
Handed == swr_comp'[Len(swr_comp')]
RecomputeStep == RecomputePending /\ ResyncStep

(***************************************************************************)
(* C15: every compensation handed to the resampler has                     *)
(* distance = 4 * sample_rate and a diff between -distance/50 and          *)
(* distance/50; when target_buffering - avg exceeds distance/50 the diff   *)
(* is exactly distance/50.                                                 *)
(***************************************************************************)
C15_CompensationClamped ==
    [][RecomputeStep =>
        LET a == avg_buffering.avg
            limit == Handed.distance \div 50
        IN  /\ Len(swr_comp') = Len(swr_comp) + 1
            /\ Handed.distance = 4 * sample_rate
            /\ 0 - limit <= Handed.diff
            /\ Handed.diff <= limit
            /\ (target_buffering * a.d - a.n > limit * a.d)
                   => Handed.diff = limit]_vars

\* the positive limit was handed over for an average far below the target
C15_Witness ==
    /\ pc = "idle"
    /\ Len(swr_comp) = 1
    /\ swr_comp[1].distance = 4 * sample_rate
    /\ swr_comp[1].diff = swr_comp[1].distance \div 50
    /\ (target_buffering - swr_comp[1].diff - 1) * avg_buffering.avg.d
           > avg_buffering.avg.n

(***************************************************************************)
(* C16, as stated: in a recompute of a push whose level right after its    *)
(* write (buffered_samples) is below target_buffering, the diff handed to  *)
(* the resampler is 0 whatever avg is.                                     *)
(***************************************************************************)
LowLevel == l.buffered_samples < target_buffering

C16_LowLevelDiffIsZero ==
    [][(RecomputeStep /\ LowLevel) => Handed.diff = 0]_vars

(***************************************************************************)
(* C16, amended: in a recompute of a push whose level right after its      *)
(* write is below target_buffering, the diff handed to the resampler is    *)
(* never negative: it is 0 when avg >= target_buffering, and when          *)
(* avg < target_buffering it is the truncation of target_buffering - avg,  *)
(* limited to distance/50.                                                 *)
(***************************************************************************)
C16_AccelerationVeto ==
    [][(RecomputeStep /\ LowLevel) =>
        LET a == avg_buffering.avg
            gap == target_buffering * a.d - a.n
        IN  /\ Handed.diff >= 0
            /\ gap <= 0 => Handed.diff = 0
            /\ gap > 0 =>
                 Handed.diff = MIN(gap \div a.d, Handed.distance \div 50)]_vars

\* a diff of 0 was handed over although avg is more than one sample above
\* the target: the level was below the target
C16_Witness ==
    /\ pc = "idle"
    /\ Len(swr_comp) = 1
    /\ swr_comp[1].diff = 0
    /\ avg_buffering.avg.n > (target_buffering + 1) * avg_buffering.avg.d

(***************************************************************************)
(* C17: a push returns false exactly when the scratch buffer could not be  *)
(* allocated or the resampler's convert call failed; it then returns       *)
(* before the lock is taken and leaves the ring, avg, played, received,    *)
(* previous_can_write and samples_since_resync unchanged.                  *)
(***************************************************************************)
\* the step in which a push returns: at once from its entry, or from line 259
PushReturnStep ==
    \/ pc = "idle" /\ npush' # npush /\ pc' = "idle"
    \/ ResyncStep

C17_PushFailures ==
    [][PushReturnStep =>
        /\ ~push_ret' <=> (~push_in'.realloc_ok \/ push_in'.ret < 0)
        /\ ~push_ret' =>
             /\ pc = "idle"
             /\ lock' = lock
             /\ buf' = buf
             /\ avg_buffering' = avg_buffering
             /\ played' = played
             /\ received' = received
             /\ previous_can_write' = previous_can_write
             /\ samples_since_resync' = samples_since_resync]_vars

\* the convert call failed in a push made while the ring held samples and a
\* callback was running
C17_Witness ==
    /\ pc = "idle"
    /\ ~push_ret
    /\ push_in.realloc_ok
    /\ push_in.ret < 0
    /\ received
    /\ can_read > 0
    /\ lock = "consumer"

(***************************************************************************)
(* C18: wherever open fails (opening the device, allocating the resampler, *)
(* initialising it, allocating the ring, allocating the scratch buffer) it *)
(* returns false holding none of the four resources, and the device has    *)
(* not been unpaused; when open returns true the four are held and the     *)
(* device is unpaused.                                                     *)
(***************************************************************************)
OpenFailStep == pc = "closed" /\ nopen' # nopen /\ pc' = "closed"
OpenReturnsTrue == pc = "opening" /\ pc' = "idle"

C18_OpenAllOrNothing ==
    /\ [][OpenFailStep =>
            /\ ~open_ret'
            /\ ~res'.device
            /\ ~res'.swr_ctx
            /\ ~res'.audiobuf
            /\ ~res'.swr_buf
            /\ ~unpaused
            /\ ~unpaused']_vars
    /\ [][OpenReturnsTrue =>
            /\ open_ret'
            /\ res'.device
            /\ res'.swr_ctx
            /\ res'.audiobuf
            /\ res'.swr_buf
            /\ unpaused']_vars
    /\ []((pc = "closed" /\ nopen > 0 /\ ~open_ret) => (res = NoRes))

\* open has failed and holds nothing
C18_Witness ==
    /\ pc = "closed"
    /\ nopen > 0
    /\ ~open_ret
    /\ res = NoRes
    /\ ~unpaused
    /\ ~received

(***************************************************************************)
(* C19: the callback only runs while the ring is alive.  The device is     *)
(* unpaused only once the resampler, the ring, the scratch buffer and the  *)
(* state of the player are initialised, and close pauses and closes the    *)
(* device, the callback in progress having returned, before it frees the   *)
(* scratch buffer, destroys the ring and frees the resampler.              *)
(***************************************************************************)
C19_CallbackOnlyWhileAlive ==
    /\ [](cb = "run" => (unpaused /\ res.audiobuf))
    /\ [](unpaused => (res = AllRes /\ pc \notin {"closed", "opening",
                                                   "closing"}))
    /\ [][(~unpaused /\ unpaused') =>
            /\ res = AllRes
            /\ buf = sc_audiobuf_init
            /\ avg_buffering = sc_average_init
            /\ ~played
            /\ ~received]_vars
    /\ [][((res.audiobuf /\ ~res'.audiobuf)
             \/ (res.swr_buf /\ ~res'.swr_buf)
             \/ (res.swr_ctx /\ ~res'.swr_ctx)) =>
            /\ ~unpaused
            /\ ~res.device
            /\ cb = "idle"]_vars

\* close has paused and closed the device after callbacks ran; the ring,
\* still holding samples, is about to be destroyed
C19_Witness ==
    /\ pc = "closing"
    /\ ~unpaused
    /\ ~res.device
    /\ res.audiobuf
    /\ res.swr_buf
    /\ res.swr_ctx
    /\ cb = "idle"
    /\ npull > 0
    /\ can_read > 0

(***************************************************************************)
(* C20: when the resampler refuses the compensation of a recompute, the    *)
(* push still returns true, samples_since_resync has been reset to 0 and   *)
(* the samples it committed stay in the ring.                              *)
(***************************************************************************)
C20_CompensationFailureNotFatal ==
    [][(RecomputeStep /\ ~Handed.ok) =>
        /\ push_ret'
        /\ samples_since_resync' = 0
        /\ buf' = buf
        /\ ring_in' = ring_in
        /\ ring_out' = ring_out
        /\ dropped' = dropped
        /\ received'
        /\ pc' = "idle"]_vars

\* the push has returned true after a refused compensation; its samples are
\* readable
C20_Witness ==
    /\ pc = "idle"
    /\ push_ret
    /\ Len(swr_comp) > 0
    /\ ~swr_comp[Len(swr_comp)].ok
    /\ samples_since_resync = 0
    /\ can_read > 0
    /\ sc_audiobuf_peek(buf, can_read - 1) = produced

(***************************************************************************)
(* A push alone, in a session that has received samples.  If the session  *)
(* plays, the first sample has been read by a callback, and the average    *)
(* has seen a number of observations drawn from AvgCountIn and has a value *)
(* drawn from AvgIn; if not, the first sample has been skipped and the     *)
(* average is as open left it.  The ring holds a number of samples drawn   *)
(* from RingLevelIn, at most what the previous push left.  A frame of      *)
(* FrameIn has been resampled and, on the fast path, copied into the ring: *)
(* the push is at line 134.                                                *)
(***************************************************************************)
RingLevelIn == {0, 1, target_buffering - 1, max_buffered_samples}
AvgCountIn == {1, 2, AverageRange}

\* the ring after the first sample was read and level more were written
RingAtLevel(level) ==
    [head |-> level + 1, tail |-> 1,
     data |-> [i \in 0..(Alloc - 1) |-> IF i <= level THEN i + 1 ELSE 0]]

AvgStateIn(pl) ==
    IF pl
    THEN {[range |-> AverageRange, count |-> c, avg |-> a] :
              c \in AvgCountIn, a \in AvgIn}
    ELSE {sc_average_init}

InitPush ==
    /\ sample_rate = SampleRate
    /\ target_buffering =
           open_target_buffering(TargetBufferingDelay, SampleRate)
    /\ \E pl \in BOOLEAN, level \in RingLevelIn, f \in FrameIn :
           LET ring == RingAtLevel(level)
               dst == dst_nb_samples(f[2], f[1])
               samples_written == MIN(f[3], dst)
               prev == sc_audiobuf_can_write(ring)
               lockless == lockless_write(samples_written, prev)
               loc == [NoLocals EXCEPT !.nb_samples = f[1],
                                       !.samples_written = samples_written,
                                       !.lockless_write = lockless,
                                       !.first = level + 2]
           IN  /\ ~convert_failed(f[3])
               /\ level <= (IF pl THEN max_buffered_samples
                                   ELSE max_initial_buffering)
               /\ played = pl
               /\ avg_buffering \in AvgStateIn(pl)
               /\ out = IF pl THEN <<1>> ELSE << >>
               /\ dropped = IF pl THEN {} ELSE {<<1, 1>>}
               /\ stream = IF pl
                           THEN CopySamples([i \in 1..TO_BYTES(1) |-> NotWritten],
                                            <<1>>)
                           ELSE [i \in 1..TO_BYTES(1) |-> 0]
               /\ l = loc
               /\ buf = IF lockless THEN push_prepare(ring, loc) ELSE ring
               /\ previous_can_write = prev
               /\ swr_buf_alloc_size =
                      MAX(TO_BYTES(SwrBufInitialSamples),
                          TO_BYTES(dst) + SwrBufGrowBytes)
               /\ produced = level + 1 + samples_written
               /\ ring_in = level + 1
               /\ push_in = [realloc_ok |-> TRUE, ret |-> f[3]]
               /\ received = TRUE
               /\ samples_since_resync = 0
               /\ res = AllRes
               /\ unpaused = TRUE
               /\ lock = "none"
               /\ pc = "lock"
               /\ cb = "idle"
               /\ cb_len = TO_BYTES(1)
               /\ swr_comp = << >>
               /\ push_ret = TRUE
               /\ open_ret = TRUE
               /\ ring_out = 1
               /\ npush = 2
               /\ npull = 1
               /\ nopen = 1

NextPush ==
    \/ PushLock
    \/ PushCritical
    \/ \E compensation_ok \in BOOLEAN : PushFinish(compensation_ok)

SpecPush == InitPush /\ [][NextPush]_vars

(***************************************************************************)
(* C21: a push changes avg only in its critical section and only when      *)
(* played is true there.  It then adds samples_written - nb_samples to     *)
(* avg, samples_written being the value after the clamp to the capacity,   *)
(* and afterwards pushes one observation, the local buffered_samples, into *)
(* the average (this after the decrease of an overflow skip, if any).      *)
(* When played is false no path of a push changes avg.                     *)
(***************************************************************************)
ProducerStep == pc' # pc \/ npush' # npush \/ nopen' # nopen

C21_PushAverageUpdate ==
    /\ [][CriticalStep =>
            IF played
            THEN avg_buffering' =
                   sc_average_push(
                       avg_add(avg_add(avg_buffering, 0 - l'.skip_samples),
                               l'.samples_written - l.nb_samples),
                       l'.buffered_samples)
            ELSE avg_buffering' = avg_buffering]_vars
    /\ [][(ProducerStep /\ ~CriticalStep /\ pc # "closed")
            => avg_buffering' = avg_buffering]_vars
    /\ [][(ProducerStep /\ ~played /\ pc # "closed")
            => avg_buffering' = avg_buffering]_vars

\* a playing push whose frame was clamped has moved an average made of
\* earlier observations
C21_Witness ==
    /\ WasOversized
    /\ l.played
    /\ l.samples_written = sc_audiobuf_capacity
    /\ l.skip_samples > 0
    /\ avg_buffering.count = 2
    /\ avg_buffering.avg.n # sc_audiobuf_capacity * avg_buffering.avg.d

(***************************************************************************)
(* The moving average alone: open has initialised it with its window, and  *)
(* every push feeds it the same level, drawn from 0..MaxObservation.       *)
(* npush counts the observations.                                          *)
(***************************************************************************)
MaxObservation == 5

InitAvg ==
    /\ sample_rate = SampleRate
    /\ target_buffering =
           open_target_buffering(TargetBufferingDelay, SampleRate)
    /\ \E v \in 0..MaxObservation :
           l = [NoLocals EXCEPT !.buffered_samples = v, !.played = TRUE]
    /\ buf = sc_audiobuf_init
    /\ avg_buffering = sc_average_init
    /\ played = TRUE
    /\ received = TRUE
    /\ previous_can_write = sc_audiobuf_capacity
    /\ samples_since_resync = 0
    /\ swr_buf_alloc_size = TO_BYTES(SwrBufInitialSamples)
    /\ res = AllRes
    /\ unpaused = TRUE
    /\ lock = "producer"
    /\ pc = "critical"
    /\ cb = "idle"
    /\ cb_len = 0
    /\ stream = << >>
    /\ swr_comp = << >>
    /\ push_ret = TRUE
    /\ open_ret = TRUE
    /\ produced = 0
    /\ out = << >>
    /\ dropped = {}
    /\ ring_in = 0
    /\ ring_out = 0
    /\ push_in = NoPushIn
    /\ npush = 0
    /\ npull = 0
    /\ nopen = 1

\* mutant: the level is added to avg instead of being pushed
AverageObserve_adds ==
    /\ npush <= AverageRange
    /\ avg_buffering' = avg_add(avg_buffering, l.buffered_samples)
    /\ npush' = npush + 1
    /\ UNCHANGED <<buf, played, received, previous_can_write,
                   samples_since_resync, swr_buf_alloc_size, res, unpaused,
                   lock, pc, l, cb_vars, swr_comp, push_ret, open_ret,
                   hist_vars, push_in, nopen,
                   session_vars>>

\* line 202: sc_average_push(&ap->avg_buffering, buffered_samples)
AverageObserve ==
    /\ npush <= AverageRange
    /\ avg_buffering' = sc_average_push(avg_buffering, l.buffered_samples)
    /\ npush' = npush + 1
    /\ UNCHANGED <<buf, played, received, previous_can_write,
                   samples_since_resync, swr_buf_alloc_size, res, unpaused,
                   lock, pc, l, cb_vars, swr_comp, push_ret, open_ret,
                   hist_vars, push_in, nopen,
                   session_vars>>

SpecAvg == InitAvg /\ [][AverageObserve]_vars

(***************************************************************************)
(* C22: the moving average initialised with the window W = 32 returns      *)
(* exactly v once W identical observations v have been pushed, for every   *)
(* v.                                                                      *)
(***************************************************************************)
C22_AverageOfIdentical ==
    (npush >= AverageRange) =>
        sc_average_get(avg_buffering) = Frac(l.buffered_samples, 1)

\* the window is full of a non-zero observation
C22_Witness ==
    /\ npush = AverageRange
    /\ avg_buffering.count = AverageRange
    /\ l.buffered_samples = MaxObservation
    /\ sc_average_get(avg_buffering).n = MaxObservation


(***************************************************************************)
(* Scenario S1, steady state.  The session is open with S1's rate and      *)
(* target, nothing pushed yet.  A frame of S1FrameSamples samples arrives  *)
(* every 20 ms and the resampler returns as many; the device asks for      *)
(* S1CallbackSamples samples every 5 ms, S1CallbacksPerFrame times per     *)
(* frame, for the same duration.  The two clocks have the same origin and  *)
(* any phase: push k+1 starts once S1CallbacksPerFrame * k callbacks have  *)
(* started, and the callback due at the same instant runs before, during   *)
(* or after it.                                                            *)
(*                                                                         *)
(* Every quantity of S1 is a whole number of milliseconds of audio: the    *)
(* rate, the target, a frame, a callback, and with them the margin and the *)
(* thresholds the code derives from the rate and the target.  Samples are  *)
(* counted by groups of S1Unit, one millisecond at S1's rate, which leaves *)
(* every comparison of the code and the ratio of the average to the target *)
(* as they are.                                                            *)
(***************************************************************************)
S1SampleRate == 48000
S1TargetBuffering == 2400
S1Frames == 20
S1FrameSamples == 960
S1CallbackSamples == 240
S1TolerancePercent == 2
S1Unit == 48

S1InUnits(samples) == samples \div S1Unit

S1CallbacksPerFrame == S1FrameSamples \div S1CallbackSamples
S1Callbacks == S1Frames * S1CallbacksPerFrame

\* the state open returns true in, with the rate and the target it computed
Opened(rate, target) ==
    /\ sample_rate = rate
    /\ target_buffering = target
    /\ buf = sc_audiobuf_init
    /\ avg_buffering = sc_average_init
    /\ played = FALSE
    /\ received = FALSE
    /\ previous_can_write = sc_audiobuf_can_write(sc_audiobuf_init)
    /\ samples_since_resync = 0
    /\ swr_buf_alloc_size = TO_BYTES(SwrBufInitialSamples)
    /\ res = AllRes
    /\ unpaused = TRUE
    /\ lock = "none"
    /\ pc = "idle"
    /\ l = NoLocals
    /\ cb = "idle"
    /\ cb_len = 0
    /\ stream = << >>
    /\ swr_comp = << >>
    /\ push_ret = TRUE
    /\ open_ret = TRUE
    /\ produced = 0
    /\ out = << >>
    /\ dropped = {}
    /\ ring_in = 0
    /\ ring_out = 0
    /\ push_in = NoPushIn
    /\ npush = 0
    /\ npull = 0
    /\ nopen = 1

InitS1 == Opened(S1InUnits(S1SampleRate), S1InUnits(S1TargetBuffering))

\* the next frame is due: the callbacks of the frames before it have started
S1Push ==
    /\ npush < S1Frames
    /\ npull >= S1CallbacksPerFrame * npush
    /\ PushResample(S1InUnits(S1FrameSamples), 0,
                    S1InUnits(S1FrameSamples))

\* the next callback is due: at most one callback ahead of the next frame,
\* and a push, far shorter than 5 ms, meets at most the callback of its instant
S1Callback ==
    /\ npull < S1Callbacks
    /\ npull <= S1CallbacksPerFrame * npush
    /\ pc = "idle" \/ npull = S1CallbacksPerFrame * (npush - 1)
    /\ npull' = npull + 1
    /\ CbLock(TO_BYTES(S1InUnits(S1CallbackSamples)))

NextS1 ==
    \/ S1Push
    \/ PushPrepare
    \/ PushLock
    \/ PushCritical
    \/ \E compensation_ok \in BOOLEAN : PushFinish(compensation_ok)
    \/ S1Callback
    \/ CbRun

SpecS1 == InitS1 /\ [][NextS1]_vars

\* the 20 frames are pushed and the callbacks of the same duration are over
S1Done ==
    /\ npush = S1Frames
    /\ pc = "idle"
    /\ npull = S1Callbacks
    /\ cb = "idle"

\* C23: at the end of S1 the average buffering is within 2 % of the target:
\* |avg - target_buffering| <= 0.02 * target_buffering.
C23_SteadyStateAverage ==
    S1Done =>
        LET avg == sc_average_get(avg_buffering)
        IN  Abs(avg.n - target_buffering * avg.d) * 100
              <= S1TolerancePercent * target_buffering * avg.d


(***************************************************************************)
(* C24: the assertion of line 179 never fails.  In every push, once the    *)
(* samples are committed (fast path) or written (slow path, after an       *)
(* overflow skip or a clamp to the capacity if any), the local             *)
(* buffered_samples equals the number of samples the ring can read, and    *)
(* that number is what went in minus what went out; callbacks that ran     *)
(* between the unlocked copy and the lock do not change this.              *)
(***************************************************************************)
\* the ring at line 179, before the thresholds of lines 182-222
RingAfterWrite == push_store(buf, avg_buffering, played, l).buf

C24_BufferedMatchesRing ==
    [][CriticalStep =>
        /\ l'.buffered_samples = sc_audiobuf_can_read(RingAfterWrite)
        /\ l'.buffered_samples = ring_in' - (ring_out + l'.skip_samples)
        /\ l'.buffered_samples <= sc_audiobuf_capacity
        /\ l'.asserts]_vars

\* a callback consumed samples, then a push had to skip to make room: the
\* local count is what the ring holds after the write
C24_Witness ==
    /\ pc = "resync"
    /\ ~l.lockless_write
    /\ l.skip_samples > 0
    /\ Len(out) > 0
    /\ l.buffered_samples = ring_in - (Len(out) + l.skip_samples)
    /\ l.buffered_samples > 0


(***************************************************************************)
(* The threads make progress.  The producer thread, once in push, runs on  *)
(* to the next statement; SDL_LockAudioDevice returns when the lock stays  *)
(* free; a callback that SDL started returns.  Nothing is assumed about    *)
(* when a push or a callback starts.                                       *)
(***************************************************************************)
PushProgress ==
    /\ WF_vars(PushPrepare)
    /\ WF_vars(PushLock)
    /\ WF_vars(PushCritical)
    /\ WF_vars(\E compensation_ok \in BOOLEAN : PushFinish(compensation_ok))

CallbackReturns == WF_vars(CbRun)

\* an open session: pushes that fail, take the fast path or the slow path
LockFrameIn == {<<2, 0, 3>>, <<2, 0, 3 * Alloc>>}

InitLock ==
    Opened(SampleRate, open_target_buffering(TargetBufferingDelay, SampleRate))

NextLock ==
    \/ \E f \in FrameIn : PushAllocFail(f[1], f[2])
    \/ \E f \in FrameIn : PushConvertFail(f[1], f[2], f[3])
    \/ \E f \in LockFrameIn : PushBegin(f[1], f[2], f[3])
    \/ PushPrepare
    \/ PushLock
    \/ PushCritical
    \/ \E compensation_ok \in BOOLEAN : PushFinish(compensation_ok)
    \/ \E len \in LenIn : CbEnter(len)
    \/ CbRun

SpecLock == InitLock /\ [][NextLock]_vars /\ PushProgress /\ CallbackReturns

(***************************************************************************)
(* C25: the producer holds the device lock exactly while it is between     *)
(* lines 134 and 227, so never when push returns; the failure returns of   *)
(* lines 109 and 116 happen with the lock not taken; the holder of the     *)
(* lock, producer or callback, can always take its next step, which for    *)
(* the producer releases the lock; and a push that has started returns,    *)
(* given that every callback returns.                                      *)
(***************************************************************************)
PushInProgress == pc \in {"prepare", "lock", "critical", "resync"}

C25_LockReleased ==
    /\ [](lock = "producer" <=> pc = "critical")
    /\ [](lock = "consumer" <=> cb = "run")
    /\ [][PushReturnStep =>
            /\ lock # "producer"
            /\ lock' # "producer"
            /\ ~push_ret' => pc = "idle" /\ lock' = lock]_vars
    /\ [][(lock = "producer" /\ ProducerStep) =>
            CriticalStep /\ lock' = "none"]_vars
    /\ [](pc = "critical" => ENABLED PushCritical)
    /\ [](cb = "run" => ENABLED CbRun)
    /\ (PushInProgress ~> pc = "idle")

\* a push that found the lock held by a callback has taken it, released it
\* and returned
C25_Witness ==
    /\ pc = "idle"
    /\ push_ret
    /\ npush > 0
    /\ received
    /\ lock = "consumer"
    /\ npull = MaxPulls


(***************************************************************************)
(* The start of playback.  The session is open and buffering; frames keep  *)
(* coming, each resampled to at least one sample: one sample, or nearly a  *)
(* whole ring (which overflows the ring as soon as it holds a few          *)
(* samples); the device keeps calling the callback.  StartPushes frames of *)
(* one sample are enough to fill the ring up to what the callback waits    *)
(* for.  A callback that plays nothing leaves no trace, and the scenario   *)
(* ends when playback starts.                                              *)
(***************************************************************************)
StartFrameIn == {<<2, 0, 1>>, <<2, 0, sc_audiobuf_capacity - 5>>}
StartPushes == target_buffering - margin

InitStart ==
    Opened(SampleRate, open_target_buffering(TargetBufferingDelay, SampleRate))

StartPush ==
    /\ ~played
    /\ npush < StartPushes
    /\ \E f \in StartFrameIn : PushResample(f[1], f[2], f[3])

StartCallback ==
    /\ ~played
    /\ UNCHANGED npull
    /\ \E len \in LenIn : CbLock(len)

NextStart ==
    \/ StartPush
    \/ PushPrepare
    \/ PushLock
    \/ PushCritical
    \/ \E compensation_ok \in BOOLEAN : PushFinish(compensation_ok)
    \/ StartCallback
    \/ CbRun

\* the device thread sleeps between two callbacks, so that a producer that
\* waits in SDL_LockAudioDevice gets the lock however often callbacks run
LockGranted == SF_vars(PushLock)

\* frames keep coming and the device keeps calling
SpecStart ==
    /\ InitStart
    /\ [][NextStart]_vars
    /\ WF_vars(StartPush)
    /\ PushProgress
    /\ LockGranted
    /\ WF_vars(StartCallback)
    /\ CallbackReturns

(***************************************************************************)
(* C26: playback eventually starts.  While the session buffers, no push    *)
(* takes the readable count from enough for the callback's gate            *)
(* (can_read + margin >= target_buffering) back to less, neither by the    *)
(* overflow skip nor by the cap of the initial buffering; once the frames  *)
(* have brought enough samples the count is enough; and played eventually  *)
(* becomes true.                                                           *)
(***************************************************************************)
C26_PlaybackStarts ==
    /\ [][(~played /\ ~initial_buffering(can_read)) =>
            (played' \/ ~initial_buffering(can_read'))]_vars
    /\ []((~played /\ npush = StartPushes /\ pc = "idle") =>
            ~initial_buffering(can_read))
    /\ <>played

\* playback started on a ring that the overflow skip and the cap had trimmed
C26_Witness ==
    /\ played
    /\ Len(out) > 0
    /\ dropped # {}
    /\ ring_out > Len(out)
    /\ npush = StartPushes


(***************************************************************************)
(* C27: the callback that sets played for the first time finds, at its     *)
(* entry, a ring whose readable count is at least target_buffering -       *)
(* margin and at most max_initial_buffering, whatever pushes and silent    *)
(* callbacks came before.                                                  *)
(***************************************************************************)
PlaybackStartStep == CallbackStep /\ ~played /\ played'

C27_LevelAtPlaybackStart ==
    [][PlaybackStartStep =>
        /\ can_read + margin >= target_buffering
        /\ can_read <= max_initial_buffering
        /\ can_read = ring_in - ring_out
        /\ out = << >>]_vars

\* playback has just started on a ring that the cap of the initial buffering
\* had cut to max_initial_buffering
C27_Witness ==
    /\ played
    /\ cb = "idle"
    /\ pc = "idle"
    /\ Len(out) > 0
    /\ ring_out > Len(out)
    /\ ring_in - (ring_out - Len(out)) = max_initial_buffering
    /\ can_read + Len(out) = max_initial_buffering


(***************************************************************************)
(* C28: in a push that runs with played true, the observation pushed into  *)
(* the moving average at line 202, which is also the level the veto of     *)
(* line 237 compares with the target, is the number of samples the ring    *)
(* can read at line 202, also when lines 187-188 skipped samples.          *)
(***************************************************************************)
C28_ObservationIsRingLevel ==
    [][(CriticalStep /\ played) =>
        /\ l'.buffered_samples = can_read'
        /\ avg_buffering' =
             sc_average_push(
                 avg_add(push_store(buf, avg_buffering, played, l).avg,
                         l'.samples_written - l.nb_samples),
                 can_read')]_vars

=============================================================================
